---- MODULE Spec2Model ----
(***************************************************************************)
(* A model of the goldmark-markdown renderer (renderer.go): the kind-keyed *)
(* dispatch table, the per-render context r.rc, the node handlers and the  *)
(* depth-first walk that drives them.                                      *)
(*                                                                         *)
(* Bytes are one-character strings and byte strings are sequences of them. *)
(* The tree is an input: it is produced lazily, one node per Enter action, *)
(* together with the attributes the handler reads from the node.  What a   *)
(* handler reads about nodes it has not met yet (HasChildren, NextSibling, *)
(* the children of a code span) is chosen when the node is entered and the *)
(* walk is then held to it.                                                *)
(***************************************************************************)
EXTENDS Integers, Sequences, FiniteSets, TLC

VARIABLES config, rc, stack, pc, limit, nodes, texts, ev, run, renders, self, other

vars == <<config, rc, stack, pc, limit, nodes, texts, ev, run, renders, self, other>>

(***************************************************************************)
(* Bounds of the model.                                                    *)
(***************************************************************************)
MaxNodes == 6      \* nodes of the tree rendered (limit is MaxNodes or MaxNodes - 1)
MaxTexts == 3      \* Text nodes of the tree rendered
MaxLen == 1        \* bytes in the content of one Text node of a paragraph or heading
MaxCodeLen == 2    \* bytes in the content of one Text node of a code span
MaxLines == 2      \* source lines of a heading or of a block of raw lines
MaxWidth == 4      \* bytes in one source line of a heading
MaxLevel == 3      \* heading levels 1..MaxLevel
MaxCols == 2       \* columns of a table
MaxRenders == 2    \* Render calls made on one Renderer, one after the other

(***************************************************************************)
(* Byte strings.                                                           *)
(***************************************************************************)
RECURSIVE Strs(_, _)
Strs(chars, n) ==
    IF n = 0 THEN {<< >>}
    ELSE LET shorter == Strs(chars, n - 1)
         IN  shorter \cup {Append(s, ch) : s \in shorter, ch \in chars}

RECURSIVE Repeat(_, _)
Repeat(b, n) == IF n <= 0 THEN << >> ELSE b \o Repeat(b, n - 1)

RECURSIVE Concat(_)
Concat(ss) == IF ss = << >> THEN << >> ELSE Head(ss) \o Concat(Tail(ss))

Contains(s, x) == \E i \in 1..Len(s) : s[i] = x

Max(a, b) == IF a > b THEN a ELSE b

IsSpace(ch) == ch \in {" ", "\n"}

\* The delimiter byte of code spans and code fences (0x60), written with a
\* glyph the string syntax accepts.
BackTick == "'"

RECURSIVE TrimLeft(_)
TrimLeft(s) ==
    IF s # << >> /\ IsSpace(Head(s)) THEN TrimLeft(Tail(s)) ELSE s

RECURSIVE TrimRight(_)
TrimRight(s) ==
    IF s # << >> /\ IsSpace(s[Len(s)])
    THEN TrimRight(SubSeq(s, 1, Len(s) - 1)) ELSE s

TrimSpace(s) == TrimRight(TrimLeft(s))

(***************************************************************************)
(* Policy configuration and the Transform Hook.  A hook is a lookup table: *)
(* "nil" is no hook configured, "all" has an entry for every key, "some"   *)
(* has an entry exactly for the keys that contain the byte "a".  Every     *)
(* replacement is made of bytes that occur in no source text, and keeps a  *)
(* line break when the key has one.                                        *)
(***************************************************************************)
NestedListLengthMinimum == 1

ThematicBreakLengthMinimum == 3

HeadingStyles == {"ATX", "ATXSurround", "Setext", "FullWidthSetext"}

Hooks == {"nil", "all", "some"}

TextTypePlain == "plain"
TextTypeHTML == "html"

Translation(text) ==
    IF Contains(text, "\n") THEN <<"T", "\n", "U">> ELSE <<"T">>

Transform(hook, textType, text) ==
    IF hook = "all" \/ (hook = "some" /\ Contains(text, "a"))
    THEN [ok |-> TRUE, translation |-> Translation(text)]
    ELSE [ok |-> FALSE, translation |-> text]

IsSetext(cfg) == cfg.HeadingStyle \in {"Setext", "FullWidthSetext"}

(***************************************************************************)
(* The writer: a line buffer, the committed output and a stack of line     *)
(* prefixes.  Every writer call of a handler is recorded in ops.           *)
(***************************************************************************)
\* A prefix covers the lines of its scope numbered first..last (from 0), or
\* from first onward when it is open; line counts the lines its scope has seen.
PrefixActive(p) == p.line >= p.first /\ (p.open \/ p.line <= p.last)

Prefix(w) ==
    Concat([i \in 1..Len(w.prefixes) |->
               IF PrefixActive(w.prefixes[i]) THEN w.prefixes[i].bytes ELSE << >>])

\* A line goes to the sink; a sink that refuses it leaves the error recorded.
CommitLine(w) ==
    IF w.broken THEN [w EXCEPT !.err = TRUE, !.buf = << >>]
    ELSE [w EXCEPT !.out = @ \o Prefix(w) \o w.buf \o <<"\n">>,
                   !.buf = << >>,
                   !.prefixes = [i \in 1..Len(@) |-> [@[i] EXCEPT !.line = @ + 1]]]

RECURSIVE Write(_, _)
Write(w, data) ==
    IF data = << >> \/ w.err THEN w
    ELSE IF Head(data) = "\n" THEN Write(CommitLine(w), Tail(data))
    ELSE Write([w EXCEPT !.buf = Append(@, Head(data))], Tail(data))

WriteBytes(c, data) ==
    [c EXCEPT !.writer = Write(@, data),
              !.ops = Append(@, <<"WriteBytes", data>>)]

WriteByte(c, b) ==
    [c EXCEPT !.writer = Write(@, <<b>>),
              !.ops = Append(@, <<"WriteBytes", <<b>> >>)]

EndLine(c) ==
    [c EXCEPT !.writer = Write(@, <<"\n">>), !.ops = Append(@, <<"EndLine", << >> >>)]

FlushLine(c) ==
    [c EXCEPT !.writer = IF @.buf # << >> THEN Write(@, <<"\n">>) ELSE @,
              !.ops = Append(@, <<"FlushLine", << >> >>)]

WriteLine(c, data) ==
    LET c1 == [c EXCEPT !.writer = Write(@, data)]
    IN  [c1 EXCEPT !.writer = IF @.buf # << >> THEN Write(@, <<"\n">>) ELSE @,
                   !.ops = Append(@, <<"WriteLine", data>>)]

PushPrefix(c, data) ==
    [c EXCEPT !.writer.prefixes =
                  Append(@, [bytes |-> data, first |-> 0, last |-> 0, open |-> TRUE, line |-> 0]),
              !.ops = Append(@, <<"PushPrefix", data>>)]

\* PushPrefix(data, first, last): the prefix covers lines first..last only.
PushPrefixLines(c, data, first, last) ==
    [c EXCEPT !.writer.prefixes =
                  Append(@, [bytes |-> data, first |-> first, last |-> last,
                             open |-> FALSE, line |-> 0]),
              !.ops = Append(@, <<"PushPrefix", data>>)]

\* PushPrefix(data, first): the prefix covers the lines from first onward.
PushPrefixFrom(c, data, first) ==
    [c EXCEPT !.writer.prefixes =
                  Append(@, [bytes |-> data, first |-> first, last |-> 0,
                             open |-> TRUE, line |-> 0]),
              !.ops = Append(@, <<"PushPrefix", data>>)]

PopPrefix(c) ==
    [c EXCEPT !.writer.prefixes = SubSeq(@, 1, Len(@) - 1),
              !.ops = Append(@, <<"PopPrefix", << >> >>)]

\* sink names the io.Writer wrapped (the Render call it was passed to), broken
\* whether that sink now refuses writes, err the failure recorded.
newMarkdownWriter ==
    [buf |-> << >>, out |-> << >>, prefixes |-> << >>,
     sink |-> 0, broken |-> FALSE, err |-> FALSE]

Err(c) == c.writer.err

(***************************************************************************)
(* The render context.  ops and calls are the trace of the handler call    *)
(* in progress: its writer calls and its hook invocations, in order.       *)
(***************************************************************************)
newRenderContext ==
    [writer |-> newMarkdownWriter,
     lists |-> << >>,
     codeSpanContext |-> [backtickLength |-> 0, padSpace |-> FALSE],
     skipTranslation |-> FALSE,
     textBuffer |-> << >>,
     textBufferActive |-> FALSE,
     pendingLineBreaks |-> << >>,
     ops |-> << >>,
     calls |-> << >>]

CallHook(c, textType, text) ==
    [c EXCEPT !.calls = Append(@, <<textType, text>>)]

(***************************************************************************)
(* Nodes.  A node is a record of the attributes the handlers read.         *)
(***************************************************************************)
Node(kind) ==
    [kind |-> kind,
     prev |-> FALSE,        \* PreviousSibling() != nil
     blank |-> FALSE,       \* HasBlankPreviousLines()
     hasKids |-> FALSE,     \* HasChildren()
     level |-> 0,           \* Heading.Level, Emphasis.Level
     lines |-> << >>,       \* Lines(), one byte string per line
     hasClosure |-> FALSE,  \* HTMLBlock.HasClosure()
     closure |-> << >>,     \* HTMLBlock.ClosureLine
     segments |-> << >>,    \* RawHTML.Segments
     value |-> << >>,       \* Text.Value, AutoLink.URL
     soft |-> FALSE,        \* Text.SoftLineBreak()
     hard |-> FALSE,        \* Text.HardLineBreak()
     next |-> FALSE,        \* NextSibling() is a Text node
     kids |-> << >>,        \* the Text children of a CodeSpan
     dest |-> << >>,        \* Link/Image.Destination
     title |-> << >>,       \* Link/Image.Title
     hasInfo |-> FALSE,     \* FencedCodeBlock.Info != nil
     info |-> << >>,        \* FencedCodeBlock.Info
     ordered |-> FALSE,     \* List.IsOrdered()
     start |-> 0,           \* List.Start
     marker |-> "-",        \* List.Marker
     alignments |-> << >>,  \* Table.Alignments (read by the rows through Parent())
     fails |-> FALSE]       \* a registered handler returns an error for this node

(***************************************************************************)
(* Handlers.  Each takes the context, the node and the entering flag and   *)
(* returns the context the handler leaves.                                 *)
(***************************************************************************)
\* A variant that does not ask for a previous sibling.
renderBlockSeparator_NoSiblingTest(cfg, c, n, entering) ==
    IF entering
    THEN IF n.blank THEN EndLine(c) ELSE c
    ELSE FlushLine(c)

renderBlockSeparator(cfg, c, n, entering) ==
    IF entering
    THEN IF n.prev /\ n.blank THEN EndLine(c) ELSE c
    ELSE FlushLine(c)

RECURSIVE MaterializeBreaks(_, _)
MaterializeBreaks(buffer, pending) ==
    IF pending = << >> THEN buffer
    ELSE MaterializeBreaks(IF Head(pending) THEN Append(buffer, "\n") ELSE buffer,
                           Tail(pending))

\* A variant that joins the nodes of a run without materializing the recorded breaks.
renderTextAccumulate_NoBreaks(c, n) ==
    IF ~c.textBufferActive
    THEN [c EXCEPT !.textBuffer = n.value,
                   !.textBufferActive = TRUE,
                   !.pendingLineBreaks = IF n.soft THEN Append(@, TRUE) ELSE @]
    ELSE [c EXCEPT !.textBuffer = @ \o n.value,
                   !.pendingLineBreaks = IF n.soft THEN <<TRUE>> ELSE << >>]

renderTextAccumulate(c, n) ==
    IF ~c.textBufferActive
    THEN [c EXCEPT !.textBuffer = n.value,
                   !.textBufferActive = TRUE,
                   !.pendingLineBreaks = IF n.soft THEN Append(@, TRUE) ELSE @]
    ELSE [c EXCEPT !.textBuffer = MaterializeBreaks(@, c.pendingLineBreaks) \o n.value,
                   !.pendingLineBreaks = IF n.soft THEN <<TRUE>> ELSE << >>]

\* A variant that re-attaches only the leading whitespace around a replacement.
renderTextFinish_NoTrailing(cfg, c) ==
    LET textStr == c.textBuffer
        asked == cfg.TextTransformer # "nil" /\ ~c.skipTranslation
        trimmedText == TrimSpace(textStr)
        res == Transform(cfg.TextTransformer, TextTypePlain, trimmedText)
        leadingSpaces == SubSeq(textStr, 1, Len(textStr) - Len(TrimLeft(textStr)))
        out == IF asked /\ res.ok THEN leadingSpaces \o res.translation ELSE textStr
        c1 == IF asked THEN CallHook(c, TextTypePlain, trimmedText) ELSE c
        c2 == WriteBytes(c1, out)
        lastNodeHasLineBreak ==
            Len(c.pendingLineBreaks) > 0 /\ c.pendingLineBreaks[Len(c.pendingLineBreaks)]
        c3 == IF lastNodeHasLineBreak THEN EndLine(c2) ELSE c2
    IN  [c3 EXCEPT !.textBufferActive = FALSE, !.pendingLineBreaks = << >>]

\* A variant that leaves the run's state in place after writing it.
renderTextFinish_NoReset(cfg, c) ==
    LET textStr == c.textBuffer
        asked == cfg.TextTransformer # "nil" /\ ~c.skipTranslation
        trimmedText == TrimSpace(textStr)
        res == Transform(cfg.TextTransformer, TextTypePlain, trimmedText)
        leadingSpaces == SubSeq(textStr, 1, Len(textStr) - Len(TrimLeft(textStr)))
        trailingSpaces == SubSeq(textStr, Len(TrimRight(textStr)) + 1, Len(textStr))
        out == IF asked /\ res.ok
               THEN leadingSpaces \o res.translation \o trailingSpaces
               ELSE textStr
        c1 == IF asked THEN CallHook(c, TextTypePlain, trimmedText) ELSE c
        c2 == WriteBytes(c1, out)
        lastNodeHasLineBreak ==
            Len(c.pendingLineBreaks) > 0 /\ c.pendingLineBreaks[Len(c.pendingLineBreaks)]
    IN  IF lastNodeHasLineBreak THEN EndLine(c2) ELSE c2

\* A variant that writes the final node's break as part of the run's text.
renderTextFinish_BreakInText(cfg, c) ==
    LET textStr == c.textBuffer
        asked == cfg.TextTransformer # "nil" /\ ~c.skipTranslation
        trimmedText == TrimSpace(textStr)
        res == Transform(cfg.TextTransformer, TextTypePlain, trimmedText)
        leadingSpaces == SubSeq(textStr, 1, Len(textStr) - Len(TrimLeft(textStr)))
        trailingSpaces == SubSeq(textStr, Len(TrimRight(textStr)) + 1, Len(textStr))
        out == IF asked /\ res.ok
               THEN leadingSpaces \o res.translation \o trailingSpaces
               ELSE textStr
        c1 == IF asked THEN CallHook(c, TextTypePlain, trimmedText) ELSE c
        lastNodeHasLineBreak ==
            Len(c.pendingLineBreaks) > 0 /\ c.pendingLineBreaks[Len(c.pendingLineBreaks)]
        c2 == WriteBytes(c1, out \o (IF lastNodeHasLineBreak THEN <<"\n">> ELSE << >>))
    IN  [c2 EXCEPT !.textBufferActive = FALSE, !.pendingLineBreaks = << >>]

renderTextFinish(cfg, c) ==
    LET textStr == c.textBuffer
        asked == cfg.TextTransformer # "nil" /\ ~c.skipTranslation
        trimmedText == TrimSpace(textStr)
        res == Transform(cfg.TextTransformer, TextTypePlain, trimmedText)
        leadingSpaces == SubSeq(textStr, 1, Len(textStr) - Len(TrimLeft(textStr)))
        trailingSpaces == SubSeq(textStr, Len(TrimRight(textStr)) + 1, Len(textStr))
        out == IF asked /\ res.ok
               THEN leadingSpaces \o res.translation \o trailingSpaces
               ELSE textStr
        c1 == IF asked THEN CallHook(c, TextTypePlain, trimmedText) ELSE c
        c2 == WriteBytes(c1, out)
        lastNodeHasLineBreak ==
            Len(c.pendingLineBreaks) > 0 /\ c.pendingLineBreaks[Len(c.pendingLineBreaks)]
        c3 == IF lastNodeHasLineBreak THEN EndLine(c2) ELSE c2
    IN  [c3 EXCEPT !.textBufferActive = FALSE, !.pendingLineBreaks = << >>]

renderText(cfg, c, n, entering) ==
    IF entering
    THEN LET c1 == renderTextAccumulate(c, n)
         IN  IF ~n.next THEN renderTextFinish(cfg, c1) ELSE c1
    ELSE c

renderSegments(c, segments, asLines) ==
    LET RECURSIVE Each(_, _)
        Each(cc, i) ==
            IF i > Len(segments) THEN cc
            ELSE LET c1 == WriteBytes(cc, segments[i])
                 IN  Each(IF asLines THEN FlushLine(c1) ELSE c1, i + 1)
    IN  Each(c, 1)

renderLines(c, n, entering) ==
    IF entering THEN renderSegments(c, n.lines, TRUE) ELSE c

\* A variant whose exit leaves the skip-translation flag set.
renderAutoLink_NoClear(cfg, c, n, entering) ==
    IF entering
    THEN LET c1 == WriteBytes(c, <<"<">>)
             c2 == [c1 EXCEPT !.skipTranslation = TRUE]
         IN  WriteBytes(c2, n.value)
    ELSE WriteBytes(c, <<">">>)

renderAutoLink(cfg, c, n, entering) ==
    IF entering
    THEN LET c1 == WriteBytes(c, <<"<">>)
             c2 == [c1 EXCEPT !.skipTranslation = TRUE]
         IN  WriteBytes(c2, n.value)
    ELSE LET c1 == WriteBytes(c, <<">">>)
         IN  [c1 EXCEPT !.skipTranslation = FALSE]

renderBlockquote(cfg, c, n, entering) ==
    IF entering THEN PushPrefix(c, <<">", " ">>) ELSE PopPrefix(c)

\* A variant that always writes the space after the marker.
renderATXHeading_AlwaysSpace(cfg, c, n, entering) ==
    IF entering
    THEN WriteBytes(WriteBytes(c, Repeat(<<"#">>, n.level)), <<" ">>)
    ELSE IF cfg.HeadingStyle = "ATXSurround"
         THEN WriteBytes(WriteBytes(c, <<" ">>), Repeat(<<"#">>, n.level))
         ELSE c

renderATXHeading(cfg, c, n, entering) ==
    IF entering
    THEN LET c1 == WriteBytes(c, Repeat(<<"#">>, n.level))
         IN  IF n.hasKids THEN WriteBytes(c1, <<" ">>) ELSE c1
    ELSE IF cfg.HeadingStyle = "ATXSurround"
         THEN WriteBytes(WriteBytes(c, <<" ">>), Repeat(<<"#">>, n.level))
         ELSE c

RECURSIVE WidestLine(_, _)
WidestLine(lines, underlineWidth) ==
    IF lines = << >> THEN underlineWidth
    ELSE WidestLine(Tail(lines),
                    IF Len(Head(lines)) > underlineWidth
                    THEN Len(Head(lines)) ELSE underlineWidth)

\* A variant whose underline is always 3 wide.
renderSetextHeading_FixedWidth(cfg, c, n, entering) ==
    IF entering THEN c
    ELSE LET underlineChar == << << >>, <<"=">>, <<"-">> >>[n.level + 1]
             c1 == WriteBytes(c, <<"\n">>)
         IN  WriteBytes(c1, Repeat(underlineChar, 3))

renderSetextHeading(cfg, c, n, entering) ==
    IF entering THEN c
    ELSE LET underlineChar == << << >>, <<"=">>, <<"-">> >>[n.level + 1]
             underlineWidth == IF cfg.HeadingStyle = "FullWidthSetext"
                               THEN WidestLine(n.lines, 3) ELSE 3
             c1 == WriteBytes(c, <<"\n">>)
         IN  WriteBytes(c1, Repeat(underlineChar, underlineWidth))

\* A variant without the rule for headings that span several lines.
renderHeading_NoMultiline(cfg, c, n, entering) ==
    IF ~n.hasKids \/ n.level > 2 THEN renderATXHeading(cfg, c, n, entering)
    ELSE IF IsSetext(cfg) THEN renderSetextHeading(cfg, c, n, entering)
    ELSE renderATXHeading(cfg, c, n, entering)

renderHeading(cfg, c, n, entering) ==
    IF ~n.hasKids \/ n.level > 2 THEN renderATXHeading(cfg, c, n, entering)
    ELSE IF Len(n.lines) > 1 THEN renderSetextHeading(cfg, c, n, entering)
    ELSE IF IsSetext(cfg) THEN renderSetextHeading(cfg, c, n, entering)
    ELSE renderATXHeading(cfg, c, n, entering)

renderThematicBreak(cfg, c, n, entering) ==
    IF entering
    THEN LET breakChars == <<"-", "*", "_">>
             breakChar == <<breakChars[cfg.ThematicBreakStyle + 1]>>
             breakLen == Max(cfg.ThematicBreakLength, ThematicBreakLengthMinimum)
         IN  WriteBytes(c, Repeat(breakChar, breakLen))
    ELSE c

IndentBytes == <<" ", " ", " ", " ">>

renderCodeBlock(cfg, c, n, entering) ==
    IF entering
    THEN LET c1 == PushPrefix(c, IndentBytes)
             c2 == [c1 EXCEPT !.skipTranslation = TRUE]
         IN  renderLines(c2, n, entering)
    ELSE LET c1 == PopPrefix(c)
         IN  [c1 EXCEPT !.skipTranslation = FALSE]

renderFencedCodeBlock(cfg, c, n, entering) ==
    LET c0 == WriteBytes(c, Repeat(<<BackTick>>, 3))
    IN  IF entering
        THEN LET c1 == [c0 EXCEPT !.skipTranslation = TRUE]
                 c2 == IF n.hasInfo THEN WriteBytes(c1, n.info) ELSE c1
                 c3 == FlushLine(c2)
             IN  renderLines(c3, n, entering)
        ELSE [c0 EXCEPT !.skipTranslation = FALSE]

\* A variant whose exit never writes the closing line.
renderHTMLBlock_NoClosure(cfg, c, n, entering) ==
    IF entering
    THEN LET htmlStr == Concat(n.lines) \o (IF n.hasClosure THEN n.closure ELSE << >>)
             asked == cfg.TextTransformer # "nil"
             res == Transform(cfg.TextTransformer, TextTypeHTML, htmlStr)
             c1 == IF asked THEN CallHook(c, TextTypeHTML, htmlStr) ELSE c
         IN  IF asked /\ res.ok
             THEN WriteBytes(c1, res.translation)
             ELSE renderLines([c1 EXCEPT !.skipTranslation = TRUE], n, entering)
    ELSE [c EXCEPT !.skipTranslation = FALSE]

renderHTMLBlock(cfg, c, n, entering) ==
    IF entering
    THEN LET htmlStr == Concat(n.lines) \o (IF n.hasClosure THEN n.closure ELSE << >>)
             asked == cfg.TextTransformer # "nil"
             res == Transform(cfg.TextTransformer, TextTypeHTML, htmlStr)
             c1 == IF asked THEN CallHook(c, TextTypeHTML, htmlStr) ELSE c
         IN  IF asked /\ res.ok
             THEN WriteBytes(c1, res.translation)
             ELSE renderLines([c1 EXCEPT !.skipTranslation = TRUE], n, entering)
    ELSE LET c1 == IF n.hasClosure THEN WriteLine(c, n.closure) ELSE c
         IN  [c1 EXCEPT !.skipTranslation = FALSE]

\* A variant that offers the hook the first segment only.
renderRawHTML_FirstSegment(cfg, c, n, entering) ==
    IF entering
    THEN LET htmlStr == n.segments[1]
             asked == cfg.TextTransformer # "nil"
             res == Transform(cfg.TextTransformer, TextTypeHTML, htmlStr)
             c1 == IF asked THEN CallHook(c, TextTypeHTML, htmlStr) ELSE c
         IN  IF asked /\ res.ok
             THEN WriteBytes(c1, res.translation)
             ELSE renderSegments(c1, n.segments, FALSE)
    ELSE c

renderRawHTML(cfg, c, n, entering) ==
    IF entering
    THEN LET htmlStr == Concat(n.segments)
             asked == cfg.TextTransformer # "nil"
             res == Transform(cfg.TextTransformer, TextTypeHTML, htmlStr)
             c1 == IF asked THEN CallHook(c, TextTypeHTML, htmlStr) ELSE c
         IN  IF asked /\ res.ok
             THEN WriteBytes(c1, res.translation)
             ELSE renderSegments(c1, n.segments, FALSE)
    ELSE c

\* A variant whose exit leaves the list's frame on the stack.
renderList_NoPop(cfg, c, n, entering) ==
    IF entering
    THEN [c EXCEPT !.lists = Append(@, [list |-> n, num |-> n.start])]
    ELSE c

renderList(cfg, c, n, entering) ==
    IF entering
    THEN [c EXCEPT !.lists = Append(@, [list |-> n, num |-> n.start])]
    ELSE [c EXCEPT !.lists = SubSeq(@, 1, Len(@) - 1)]

\* fmt.Sprint of a non-negative int.
Digit(d) == <<"0", "1", "2", "3", "4", "5", "6", "7", "8", "9">>[d + 1]

RECURSIVE Sprint(_)
Sprint(num) ==
    IF num < 10 THEN <<Digit(num)>> ELSE Append(Sprint(num \div 10), Digit(num % 10))

\* A variant that numbers an item from its list's start value, without a cursor.
renderListItem_NoCursor(cfg, c, n, entering) ==
    IF entering
    THEN LET l == c.lists[Len(c.lists)]
             itemPrefix == (IF l.list.ordered THEN Sprint(l.list.start) ELSE << >>)
                           \o <<l.list.marker, " ">>
             c2 == PushPrefixLines(c, itemPrefix, 0, 0)
             indentLen == Max(cfg.NestedListLength, NestedListLengthMinimum)
             indent == Repeat(<<" ">>, indentLen)
         IN  PushPrefixFrom(c2, Repeat(indent, Len(itemPrefix)), 1)
    ELSE PopPrefix(PopPrefix(c))

\* A variant whose exit pops one prefix only.
renderListItem_OnePop(cfg, c, n, entering) ==
    IF entering
    THEN LET l == c.lists[Len(c.lists)]
             itemPrefix == (IF l.list.ordered THEN Sprint(l.num) ELSE << >>)
                           \o <<l.list.marker, " ">>
             c1 == IF l.list.ordered
                   THEN [c EXCEPT !.lists[Len(c.lists)].num = @ + 1]
                   ELSE c
             c2 == PushPrefixLines(c1, itemPrefix, 0, 0)
             indentLen == Max(cfg.NestedListLength, NestedListLengthMinimum)
             indent == Repeat(<<" ">>, indentLen)
         IN  PushPrefixFrom(c2, Repeat(indent, Len(itemPrefix)), 1)
    ELSE PopPrefix(c)

renderListItem(cfg, c, n, entering) ==
    IF entering
    THEN LET l == c.lists[Len(c.lists)]
             itemPrefix == (IF l.list.ordered THEN Sprint(l.num) ELSE << >>)
                           \o <<l.list.marker, " ">>
             c1 == IF l.list.ordered
                   THEN [c EXCEPT !.lists[Len(c.lists)].num = @ + 1]
                   ELSE c
             c2 == PushPrefixLines(c1, itemPrefix, 0, 0)
             indentLen == Max(cfg.NestedListLength, NestedListLengthMinimum)
             indent == Repeat(<<" ">>, indentLen)
         IN  PushPrefixFrom(c2, Repeat(indent, Len(itemPrefix)), 1)
    ELSE PopPrefix(PopPrefix(c))

renderLink(cfg, c, n, entering) ==
    IF entering THEN WriteBytes(c, <<"[">>)
    ELSE LET c1 == [c EXCEPT !.skipTranslation = TRUE]
             c2 == WriteBytes(c1, <<"]", "(">>)
             c3 == WriteBytes(c2, n.dest)
             c4 == IF Len(n.title) > 0
                   THEN WriteBytes(WriteBytes(WriteBytes(c3, <<" ", "\"">>), n.title), <<"\"">>)
                   ELSE c3
             c5 == WriteBytes(c4, <<")">>)
         IN  [c5 EXCEPT !.skipTranslation = FALSE]

renderImage(cfg, c, n, entering) ==
    IF entering THEN WriteBytes(c, <<"!", "[">>)
    ELSE LET c1 == [c EXCEPT !.skipTranslation = TRUE]
             c2 == WriteBytes(c1, <<"]", "(">>)
             c3 == WriteBytes(c2, n.dest)
             c4 == IF Len(n.title) > 0
                   THEN LET t1 == WriteBytes(c3, <<" ", "\"">>)
                            t2 == [t1 EXCEPT !.skipTranslation = FALSE]
                            t3 == WriteBytes(t2, n.title)
                            t4 == [t3 EXCEPT !.skipTranslation = TRUE]
                        IN  WriteBytes(t4, <<"\"">>)
                   ELSE c3
             c5 == WriteBytes(c4, <<")">>)
         IN  [c5 EXCEPT !.skipTranslation = FALSE]

renderEmphasis(cfg, c, n, entering) == WriteBytes(c, Repeat(<<"*">>, n.level))

(***************************************************************************)
(* The code span handler: one scan of the content, then the choice of the  *)
(* delimiter width and of the padding.                                     *)
(***************************************************************************)
CodeSpanContents(n) == Concat(n.kids)

\* The scan state before the first byte.
NewScan ==
    [beginsWithSpace |-> FALSE, endsWithSpace |-> FALSE,
     beginsWithBackTick |-> FALSE, endsWithBackTick |-> FALSE,
     isOnlySpace |-> TRUE, backtickLengths |-> << >>, count |-> 0]

\* The first and the last byte set the flags of the two ends.
ScanEnds(st, ch, i, last) ==
    IF i = 1
    THEN [st EXCEPT !.beginsWithSpace = IsSpace(ch),
                    !.beginsWithBackTick = (ch = BackTick)]
    ELSE IF i = last
    THEN [st EXCEPT !.endsWithSpace = IsSpace(ch),
                    !.endsWithBackTick = (ch = BackTick)]
    ELSE st

ScanSpace(st, ch) ==
    IF ~IsSpace(ch) THEN [st EXCEPT !.isOnlySpace = FALSE] ELSE st

\* A backtick extends the current run; any other byte closes it.
ScanBackTick(st, ch) ==
    IF ch = BackTick THEN [st EXCEPT !.count = @ + 1]
    ELSE IF st.count > 0
    THEN [st EXCEPT !.backtickLengths = Append(@, st.count), !.count = 0]
    ELSE st

RECURSIVE ScanCodeSpan(_, _, _)
ScanCodeSpan(contents, i, st) ==
    IF i > Len(contents)
    THEN IF st.count > 0
         THEN [st EXCEPT !.backtickLengths = Append(@, st.count)]
         ELSE st
    ELSE ScanCodeSpan(contents, i + 1,
             ScanBackTick(ScanSpace(ScanEnds(st, contents[i], i, Len(contents)),
                                    contents[i]),
                          contents[i]))

RECURSIVE MinimumBackticks(_, _, _, _)
MinimumBackticks(backtickLengths, i, n, current) ==
    IF i > n THEN current
    ELSE IF ~Contains(backtickLengths, i) THEN i
    ELSE MinimumBackticks(backtickLengths, i + 1, n, current)

\* The delimiter: as many backticks as the context records.
WriteDelimiter(c) ==
    WriteBytes(c, Repeat(<<BackTick>>, c.codeSpanContext.backtickLength))

\* The opening pad, written and recorded when the scan asks for it.
PadOpening(c, st) ==
    IF (st.beginsWithSpace /\ st.endsWithSpace /\ ~st.isOnlySpace)
       \/ st.beginsWithBackTick \/ st.endsWithBackTick
    THEN WriteBytes([c EXCEPT !.codeSpanContext.padSpace = TRUE], <<" ">>)
    ELSE c

\* The closing pad, written when the context records one.
PadClosing(c) ==
    IF c.codeSpanContext.padSpace THEN WriteBytes(c, <<" ">>) ELSE c

\* The entering half after the scan st of a content of len bytes.
OpenCodeSpan(c, len, st) ==
    PadOpening(WriteDelimiter([c EXCEPT !.codeSpanContext.backtickLength =
                                            MinimumBackticks(st.backtickLengths, 1, len, @)]),
               st)

\* A variant that does not open a skip-translation region.
renderCodeSpan_NoSkip(cfg, c, n, entering) ==
    IF entering
    THEN OpenCodeSpan(c, Len(CodeSpanContents(n)),
                      ScanCodeSpan(CodeSpanContents(n), 1, NewScan))
    ELSE [WriteDelimiter(PadClosing(c)) EXCEPT !.skipTranslation = FALSE]

renderCodeSpan(cfg, c, n, entering) ==
    IF entering
    THEN OpenCodeSpan([c EXCEPT !.skipTranslation = TRUE], Len(CodeSpanContents(n)),
                      ScanCodeSpan(CodeSpanContents(n), 1, NewScan))
    ELSE [WriteDelimiter(PadClosing(c)) EXCEPT !.skipTranslation = FALSE]

(***************************************************************************)
(* The table handlers, registered through RegisterFuncs.  A registered     *)
(* handler returns the context it leaves and its error value.              *)
(***************************************************************************)
renderTable(cfg, c, n, entering) == [c |-> c, err |-> FALSE]

\* A variant that has no case for centered columns.
AlignmentMarker_NoCenter(alignment) ==
    CASE alignment = "left" -> <<":", "-", "-", "-", "-", "-", " ">>
      [] alignment = "right" -> <<"-", "-", "-", "-", "-", ":", " ">>
      [] OTHER -> <<"-", "-", "-", "-", "-", " ">>

AlignmentMarker(alignment) ==
    CASE alignment = "left" -> <<":", "-", "-", "-", "-", "-", " ">>
      [] alignment = "right" -> <<"-", "-", "-", "-", "-", ":", " ">>
      [] alignment = "center" -> <<":", "-", "-", "-", "-", ":", " ">>
      [] OTHER -> <<"-", "-", "-", "-", "-", " ">>

RECURSIVE SeparatorCells(_, _)
SeparatorCells(c, alignments) ==
    IF alignments = << >> THEN c
    ELSE LET c1 == WriteByte(c, " ")
             c2 == WriteBytes(c1, AlignmentMarker(Head(alignments)))
         IN  SeparatorCells(WriteByte(c2, "|"), Tail(alignments))

\* A variant that does not end the header line before the separator.
renderTableHeader_NoHeaderEnd(cfg, c, n, entering) ==
    IF entering
    THEN [c |-> WriteBytes(c, <<"|">>), err |-> FALSE]
    ELSE LET c2 == WriteByte(c, "|")
             c3 == SeparatorCells(c2, n.alignments)
         IN  [c |-> EndLine(c3), err |-> FALSE]

renderTableHeader(cfg, c, n, entering) ==
    IF entering
    THEN [c |-> WriteBytes(c, <<"|">>), err |-> FALSE]
    ELSE LET c1 == EndLine(c)
             c2 == WriteByte(c1, "|")
             c3 == SeparatorCells(c2, n.alignments)
         IN  [c |-> EndLine(c3), err |-> FALSE]

renderTableRow(cfg, c, n, entering) ==
    [c |-> IF entering THEN WriteByte(c, "|") ELSE EndLine(c), err |-> FALSE]

renderTableCell(cfg, c, n, entering) ==
    [c |-> IF entering THEN WriteByte(c, " ") ELSE WriteBytes(c, <<" ", "|">>),
     err |-> FALSE]

\* A handler registered by another extension: it writes nothing and returns
\* the error its node calls for.
RegisteredFunc(kind, cfg, c, n, entering) ==
    CASE kind = "Table" -> renderTable(cfg, c, n, entering)
      [] kind = "TableHeader" -> renderTableHeader(cfg, c, n, entering)
      [] kind = "TableRow" -> renderTableRow(cfg, c, n, entering)
      [] kind = "TableCell" -> renderTableCell(cfg, c, n, entering)
      [] OTHER -> [c |-> c, err |-> n.fails]

\* transform drops the error value of the handler it wraps.
transform(kind, cfg, c, n, entering) == RegisteredFunc(kind, cfg, c, n, entering).c

(***************************************************************************)
(* The dispatch table built by Render: block kinds are chained behind      *)
(* renderBlockSeparator, in declaration order on enter and in reverse      *)
(* order on exit.                                                          *)
(***************************************************************************)
BlockKinds == {"Document", "Heading", "Blockquote", "CodeBlock", "FencedCodeBlock",
               "HTMLBlock", "List", "ListItem", "Paragraph", "TextBlock", "ThematicBreak"}

RegisteredKinds == {"Table", "TableHeader", "TableRow", "TableCell", "Custom"}

InlineKinds == {"AutoLink", "CodeSpan", "Emphasis", "Image", "Link", "RawHTML", "Text"}

\* The kinds whose entry of the table is set when the first Render call has
\* built it: the default block and inline kinds and the registered kinds.  The
\* entry of String is left nil.
HandledKinds == BlockKinds \cup InlineKinds \cup RegisteredKinds

\* The handler chained behind the block separator for a block kind.
BlockHandler(kind, cfg, c, n, entering) ==
    CASE kind = "Heading" -> renderHeading(cfg, c, n, entering)
      [] kind = "Blockquote" -> renderBlockquote(cfg, c, n, entering)
      [] kind = "CodeBlock" -> renderCodeBlock(cfg, c, n, entering)
      [] kind = "FencedCodeBlock" -> renderFencedCodeBlock(cfg, c, n, entering)
      [] kind = "HTMLBlock" -> renderHTMLBlock(cfg, c, n, entering)
      [] kind = "List" -> renderList(cfg, c, n, entering)
      [] kind = "ListItem" -> renderListItem(cfg, c, n, entering)
      [] kind = "ThematicBreak" -> renderThematicBreak(cfg, c, n, entering)
      [] OTHER -> c

\* The handler of an inline kind.
Handler(kind, cfg, c, n, entering) ==
    CASE kind = "AutoLink" -> renderAutoLink(cfg, c, n, entering)
      [] kind = "CodeSpan" -> renderCodeSpan(cfg, c, n, entering)
      [] kind = "Emphasis" -> renderEmphasis(cfg, c, n, entering)
      [] kind = "Image" -> renderImage(cfg, c, n, entering)
      [] kind = "Link" -> renderLink(cfg, c, n, entering)
      [] kind = "RawHTML" -> renderRawHTML(cfg, c, n, entering)
      [] kind = "Text" -> renderText(cfg, c, n, entering)
      [] OTHER -> c

\* The separator runs first when entering and last when exiting.
SeparatorWhen(first, cfg, c, n, entering) ==
    IF first THEN renderBlockSeparator(cfg, c, n, entering) ELSE c

chainRenderers(kind, cfg, c, n, entering) ==
    SeparatorWhen(~entering, cfg,
                  BlockHandler(kind, cfg, SeparatorWhen(entering, cfg, c, n, entering),
                               n, entering),
                  n, entering)

nodeRendererFuncs(kind, cfg, c, n, entering) ==
    IF kind \in RegisteredKinds THEN transform(kind, cfg, c, n, entering)
    ELSE IF kind \in {"Document", "Paragraph", "TextBlock"}
    THEN renderBlockSeparator(cfg, c, n, entering)
    ELSE IF kind \in BlockKinds THEN chainRenderers(kind, cfg, c, n, entering)
    ELSE Handler(kind, cfg, c, n, entering)

(***************************************************************************)
(* The walk (ast.Walk as called by Render).  stack holds one frame per     *)
(* node that has been entered and not yet exited: the node, the number of  *)
(* its children met so far, whether its last child was a Text node and     *)
(* whether that Text node announced a Text next sibling, and the writer    *)
(* calls of its enter handler.                                             *)
(***************************************************************************)
ContainerBlocks == {"Document", "Blockquote", "ListItem"}

LeafBlocks == {"CodeBlock", "FencedCodeBlock", "HTMLBlock"}

ChildKinds(kind) ==
    CASE kind \in ContainerBlocks ->
             (BlockKinds \ {"Document", "ListItem"}) \cup {"Table", "Custom"}
      [] kind \in {"Paragraph", "TextBlock", "Heading", "Emphasis", "Link", "Image",
                   "TableCell"} -> InlineKinds \cup {"String"}
      [] kind = "List" -> {"ListItem"}
      [] kind = "Table" -> {"TableHeader", "TableRow"}
      [] kind \in {"TableHeader", "TableRow"} -> {"TableCell"}
      [] kind = "CodeSpan" -> {"Text"}
      [] OTHER -> {}

Frame(n) == [n |-> n, nkids |-> 0, lastText |-> FALSE, owed |-> FALSE, enterOps |-> << >>]

Top == stack[Len(stack)]

\* Children the frame may still get, and children it must still get.
MayHaveKids(f) ==
    /\ f.n.kind = "Heading" => f.n.hasKids
    /\ f.n.kind = "CodeSpan" => f.nkids < Len(f.n.kids)
    /\ f.n.kind \in {"TableHeader", "TableRow"} => f.nkids < Len(f.n.alignments)

\* A table starts with its header row and has rows after it; TextBlock is the
\* tight form of a paragraph and is met in list items only.
KidAllowed(f, kind) ==
    /\ f.n.kind = "Table" => (kind = "TableHeader" <=> f.nkids = 0)
    /\ kind = "TextBlock" => f.n.kind = "ListItem"

FrameDebt(f) ==
    IF f.n.kind = "CodeSpan" THEN Len(f.n.kids) - f.nkids
    ELSE IF f.n.kind \in {"TableHeader", "TableRow"} THEN Len(f.n.alignments) - f.nkids
    ELSE IF f.owed THEN 1
    ELSE IF f.n.kind = "Heading" /\ f.n.hasKids /\ f.nkids = 0 THEN 1
    ELSE IF f.n.kind \in {"Paragraph", "TextBlock", "List", "Table"} /\ f.nkids = 0 THEN 1
    ELSE 0

RECURSIVE Debt(_)
Debt(st) == IF st = << >> THEN 0 ELSE FrameDebt(Head(st)) + Debt(Tail(st))

FrameTextDebt(f) ==
    IF f.n.kind = "CodeSpan" THEN Len(f.n.kids) - f.nkids
    ELSE IF f.owed THEN 1 ELSE 0

RECURSIVE TextDebt(_)
TextDebt(st) == IF st = << >> THEN 0 ELSE FrameTextDebt(Head(st)) + TextDebt(Tail(st))

Written(ops) ==
    Concat([i \in 1..Len(ops) |->
               IF ops[i][1] \in {"WriteBytes", "WriteLine"} THEN ops[i][2] ELSE << >>])

\* The last handler call: the node, the call of Render that made it (call),
\* and what the context held when the handler was invoked (skip, active, the
\* writer before, the sink it wraps).
NoEvent ==
    [kind |-> "none", entering |-> FALSE, n |-> Node("none"), parent |-> "none",
     skip |-> FALSE, active |-> FALSE, enterOps |-> << >>,
     call |-> 0, sink |-> 0, before |-> newMarkdownWriter]

\* A variant of the entry of Render that keeps the context of the instance.
RenderCall_KeepContext ==
    /\ rc' = [rc EXCEPT !.writer.sink = self, !.ops = << >>, !.calls = << >>]
    /\ pc' = "walk"
    /\ stack' = << >>
    /\ nodes' = 0
    /\ texts' = 0
    /\ ev' = NoEvent
    /\ run' = << >>
    /\ renders' = renders + 1
    /\ UNCHANGED <<config, limit, self, other>>

\* The entry of Render: a new context around the sink of this call.
RenderCall ==
    /\ rc' = [newRenderContext EXCEPT !.writer.sink = self]
    /\ pc' = "walk"
    /\ stack' = << >>
    /\ nodes' = 0
    /\ texts' = 0
    /\ ev' = NoEvent
    /\ run' = << >>
    /\ renders' = renders + 1
    /\ UNCHANGED <<config, limit, self, other>>

\* The first Render call of this caller.
Render == pc = "idle" /\ RenderCall

\* A later Render call on the same Renderer, after one that returned or failed.
RenderAgain == pc \in {"done", "failed"} /\ renders < MaxRenders /\ RenderCall

\* The sink starts to refuse writes.
SinkFails ==
    /\ pc = "walk"
    /\ ~rc.writer.broken
    /\ rc' = [rc EXCEPT !.writer.broken = TRUE]
    /\ UNCHANGED <<config, stack, pc, limit, nodes, texts, ev, run, renders, self, other>>

\* The scheduler suspends the running Render call and resumes the other one.
\* The walk and its position belong to the call; r.rc belongs to the Renderer.
NoCall ==
    [id |-> 2, pc |-> "none", stack |-> << >>, nodes |-> 0, texts |-> 0,
     ev |-> NoEvent, run |-> << >>]

Switch ==
    /\ other.pc \in {"idle", "walk"}
    /\ pc \in {"walk", "done", "failed"}
    /\ self' = other.id
    /\ pc' = other.pc
    /\ stack' = other.stack
    /\ nodes' = other.nodes
    /\ texts' = other.texts
    /\ ev' = other.ev
    /\ run' = other.run
    /\ other' = [id |-> self, pc |-> pc, stack |-> stack, nodes |-> nodes,
                 texts |-> texts, ev |-> ev, run |-> run]
    /\ UNCHANGED <<config, rc, limit, renders>>

Enter(n0) ==
    LET root == stack = << >>
        parent == Top
        n == [n0 EXCEPT !.prev = ~root /\ parent.nkids > 0]
        frame == Frame(n)
        below == IF root THEN << >>
                 ELSE [stack EXCEPT ![Len(stack)] =
                          [@ EXCEPT !.nkids = @ + 1,
                                    !.lastText = (n.kind = "Text"),
                                    !.owed = (n.kind = "Text" /\ n.next)]]
    IN  /\ pc = "walk"
        /\ IF root THEN n.kind = "Document" /\ nodes = 0
           ELSE /\ n.kind \in ChildKinds(parent.n.kind)
                /\ MayHaveKids(parent)
                /\ KidAllowed(parent, n.kind)
                /\ parent.owed => n.kind = "Text"
                /\ (parent.lastText /\ ~parent.owed) => n.kind # "Text"
                /\ parent.n.kind = "CodeSpan" =>
                       /\ n.value = parent.n.kids[parent.nkids + 1]
                       /\ ~n.soft
                       /\ n.next = (parent.nkids + 1 < Len(parent.n.kids))
        /\ rc' = nodeRendererFuncs(n.kind, config,
                                   [rc EXCEPT !.ops = << >>, !.calls = << >>], n, TRUE)
        /\ stack' = Append(below, [frame EXCEPT !.enterOps = rc'.ops])
        /\ nodes' = nodes + 1
        /\ nodes' + Debt(stack') <= limit
        /\ texts' = texts + (IF n.kind = "Text" THEN 1 ELSE 0)
        /\ texts' + TextDebt(stack') <= MaxTexts
        /\ pc' = IF n.kind \notin HandledKinds THEN "panicked"
                 ELSE IF Err(rc') THEN "failed" ELSE "walk"
        /\ ev' = [kind |-> n.kind, entering |-> TRUE, n |-> n,
                  parent |-> IF root THEN "none" ELSE parent.n.kind,
                  skip |-> rc.skipTranslation, active |-> rc.textBufferActive,
                  enterOps |-> << >>,
                  call |-> self, sink |-> rc.writer.sink, before |-> rc.writer]
        /\ run' = IF n.kind # "Text" THEN run
                  ELSE IF ~root /\ parent.owed THEN Append(run, [value |-> n.value, soft |-> n.soft, hard |-> n.hard])
                  ELSE <<[value |-> n.value, soft |-> n.soft, hard |-> n.hard]>>
        /\ UNCHANGED <<config, limit, renders, self, other>>

\* A variant of the exit step that does not consult the writer's error.
Exit_IgnoreErr(kinds) ==
    /\ pc = "walk"
    /\ stack # << >>
    /\ Top.n.kind \in kinds
    /\ ~Top.owed
    /\ FrameDebt(Top) = 0
    /\ rc' = nodeRendererFuncs(Top.n.kind, config, [rc EXCEPT !.ops = << >>, !.calls = << >>],
                               Top.n, FALSE)
    /\ stack' = SubSeq(stack, 1, Len(stack) - 1)
    /\ pc' = IF Len(stack) = 1 THEN "done" ELSE "walk"
    /\ ev' = [kind |-> Top.n.kind, entering |-> FALSE, n |-> Top.n,
              parent |-> IF Len(stack) = 1 THEN "none" ELSE stack[Len(stack) - 1].n.kind,
              skip |-> rc.skipTranslation, active |-> rc.textBufferActive,
              enterOps |-> Top.enterOps,
              call |-> self, sink |-> rc.writer.sink, before |-> rc.writer]
    /\ UNCHANGED <<config, limit, nodes, texts, run, renders, self, other>>

Exit(kinds) ==
    /\ pc = "walk"
    /\ stack # << >>
    /\ Top.n.kind \in kinds
    /\ ~Top.owed
    /\ FrameDebt(Top) = 0
    /\ rc' = nodeRendererFuncs(Top.n.kind, config, [rc EXCEPT !.ops = << >>, !.calls = << >>],
                               Top.n, FALSE)
    /\ stack' = SubSeq(stack, 1, Len(stack) - 1)
    /\ pc' = IF Err(rc') THEN "failed" ELSE IF Len(stack) = 1 THEN "done" ELSE "walk"
    /\ ev' = [kind |-> Top.n.kind, entering |-> FALSE, n |-> Top.n,
              parent |-> IF Len(stack) = 1 THEN "none" ELSE stack[Len(stack) - 1].n.kind,
              skip |-> rc.skipTranslation, active |-> rc.textBufferActive,
              enterOps |-> Top.enterOps,
              call |-> self, sink |-> rc.writer.sink, before |-> rc.writer]
    /\ UNCHANGED <<config, limit, nodes, texts, run, renders, self, other>>

(***************************************************************************)
(* The inputs: the nodes of each kind, over small alphabets.               *)
(***************************************************************************)
PlainChars == {"a", " "}

CodeChars == {"a", " ", BackTick}

\* The i-th source line of a block of raw lines; lines differ so that their
\* order shows in the output.
SourceLine(i) == IF i % 2 = 1 THEN <<"<", "\n">> ELSE <<"a", "\n">>

SourceLines(count) == [i \in 1..count |-> SourceLine(i)]

\* The walk can meet a node of this kind next.
CanEnter(kind) ==
    /\ pc = "walk"
    /\ IF stack = << >> THEN kind = "Document" /\ nodes = 0
       ELSE /\ kind \in ChildKinds(Top.n.kind)
            /\ MayHaveKids(Top)
            /\ KidAllowed(Top, kind)
            /\ nodes + Debt(stack) + (IF FrameDebt(Top) > 0 THEN 0 ELSE 1) <= limit
            /\ kind = "Text" =>
                   texts + TextDebt(stack) + (IF FrameTextDebt(Top) > 0 THEN 0 ELSE 1) <= MaxTexts
            /\ Top.owed => kind = "Text"
            /\ (Top.lastText /\ ~Top.owed) => kind # "Text"

EnterDocument == CanEnter("Document") /\ Enter(Node("Document"))

EnterParagraph ==
    /\ CanEnter("Paragraph")
    /\ \E blank \in BOOLEAN : Enter([Node("Paragraph") EXCEPT !.blank = blank])

EnterBlockquote ==
    /\ CanEnter("Blockquote")
    /\ \E blank \in BOOLEAN : Enter([Node("Blockquote") EXCEPT !.blank = blank])

\* breaks: how the node's source line may end; a line ends in a soft break, in
\* a hard break or in neither.
EnterTextOf(chars, breaks) ==
    /\ CanEnter("Text")
    /\ \E value \in (IF Top.n.kind = "CodeSpan" THEN {Top.n.kids[Top.nkids + 1]}
                      ELSE Strs(chars, MaxLen)),
          break \in breaks, next \in BOOLEAN :
           Enter([Node("Text") EXCEPT !.value = value, !.soft = (break = "soft"),
                                      !.hard = (break = "hard"), !.next = next])

EnterText(chars) == EnterTextOf(chars, {"none", "soft"})

\* A String node: inline text that is not a segment of the source.
EnterString == CanEnter("String") /\ Enter(Node("String"))

EnterEmphasis ==
    /\ CanEnter("Emphasis")
    /\ \E level \in 1..2 : Enter([Node("Emphasis") EXCEPT !.level = level])

EnterHeadingOf(levels, counts, lineWidths) ==
    /\ CanEnter("Heading")
    /\ \E level \in levels, hasKids \in BOOLEAN, blank \in BOOLEAN, count \in counts :
           \E widths \in [1..count -> lineWidths] :
               Enter([Node("Heading") EXCEPT
                         !.level = level, !.hasKids = hasKids, !.blank = blank,
                         !.lines = [i \in 1..count |-> Repeat(<<"a">>, widths[i])]])

EnterHeading == EnterHeadingOf(1..MaxLevel, 1..MaxLines, {1, MaxWidth})

EnterCodeSpan ==
    /\ CanEnter("CodeSpan")
    /\ \E contents \in Strs(CodeChars, MaxCodeLen) \ {<< >>} :
           \E cut \in 0..(Len(contents) - 1) :
               LET kids == IF cut = 0 THEN <<contents>>
                           ELSE <<SubSeq(contents, 1, cut),
                                  SubSeq(contents, cut + 1, Len(contents))>>
               IN  Enter([Node("CodeSpan") EXCEPT !.kids = kids, !.hasKids = TRUE])

EnterAutoLink ==
    /\ CanEnter("AutoLink")
    /\ \E url \in {<<"a">>, <<"a", "a">>} : Enter([Node("AutoLink") EXCEPT !.value = url])

EnterLink ==
    /\ CanEnter("Link")
    /\ \E title \in {<< >>, <<"a">>} :
           Enter([Node("Link") EXCEPT !.dest = <<"a">>, !.title = title])

EnterImage ==
    /\ CanEnter("Image")
    /\ \E title \in {<< >>, <<"a">>} :
           Enter([Node("Image") EXCEPT !.dest = <<"a">>, !.title = title])

EnterRawHTML ==
    /\ CanEnter("RawHTML")
    /\ \E count \in 1..MaxLines :
           Enter([Node("RawHTML") EXCEPT
                     !.segments = [i \in 1..count |-> IF i = 1 THEN <<"<">> ELSE <<"\n", "a">>]])

\* The last line of the source may lack its line terminator.
EnterHTMLBlockOf(counts, closures, eofs) ==
    /\ CanEnter("HTMLBlock")
    /\ \E count \in counts, hasClosure \in closures, blank \in BOOLEAN, eof \in eofs :
           LET lines == SourceLines(count)
           IN  Enter([Node("HTMLBlock") EXCEPT
                         !.lines = IF eof /\ ~hasClosure
                                   THEN [lines EXCEPT ![count] = SubSeq(@, 1, Len(@) - 1)]
                                   ELSE lines,
                         !.blank = blank, !.hasClosure = hasClosure,
                         !.closure = IF ~hasClosure THEN << >>
                                     ELSE IF eof THEN <<">">> ELSE <<">", "\n">>])

EnterHTMLBlock == EnterHTMLBlockOf(1..MaxLines, BOOLEAN, BOOLEAN)

EnterCodeBlockOf(counts) ==
    /\ CanEnter("CodeBlock")
    /\ \E count \in counts, blank \in BOOLEAN :
           Enter([Node("CodeBlock") EXCEPT !.lines = SourceLines(count), !.blank = blank])

EnterCodeBlock == EnterCodeBlockOf(1..MaxLines)

EnterFencedCodeBlockOf(counts, infos) ==
    /\ CanEnter("FencedCodeBlock")
    /\ \E count \in counts, hasInfo \in infos, blank \in BOOLEAN :
           Enter([Node("FencedCodeBlock") EXCEPT
                     !.lines = SourceLines(count), !.blank = blank, !.hasInfo = hasInfo,
                     !.info = IF hasInfo THEN <<"a">> ELSE << >>])

EnterFencedCodeBlock == EnterFencedCodeBlockOf(0..MaxLines, BOOLEAN)

EnterTextBlock == CanEnter("TextBlock") /\ Enter(Node("TextBlock"))

EnterThematicBreak ==
    /\ CanEnter("ThematicBreak")
    /\ \E blank \in BOOLEAN : Enter([Node("ThematicBreak") EXCEPT !.blank = blank])

\* Ordered lists start at 1 or at a value whose successor has one more digit.
EnterList ==
    /\ CanEnter("List")
    /\ \E ordered \in BOOLEAN, blank \in BOOLEAN :
           \E start \in IF ordered THEN {1, 9} ELSE {0} :
               Enter([Node("List") EXCEPT
                         !.ordered = ordered, !.start = start, !.blank = blank,
                         !.marker = IF ordered THEN "." ELSE "-"])

EnterListItem ==
    /\ CanEnter("ListItem")
    /\ \E blank \in BOOLEAN : Enter([Node("ListItem") EXCEPT !.blank = blank])

EnterTable ==
    /\ CanEnter("Table")
    /\ \E cols \in 1..MaxCols :
           \E alignments \in [1..cols -> {"left", "right", "center", "none"}] :
               Enter([Node("Table") EXCEPT !.alignments = alignments])

EnterTableHeader ==
    /\ CanEnter("TableHeader")
    /\ Enter([Node("TableHeader") EXCEPT !.alignments = Top.n.alignments])

EnterTableRow ==
    /\ CanEnter("TableRow")
    /\ Enter([Node("TableRow") EXCEPT !.alignments = Top.n.alignments])

EnterTableCell == CanEnter("TableCell") /\ Enter(Node("TableCell"))

EnterCustom ==
    /\ CanEnter("Custom")
    /\ \E fails \in BOOLEAN : Enter([Node("Custom") EXCEPT !.fails = fails])

ExitNode == Exit(BlockKinds \cup InlineKinds \cup RegisteredKinds)

(***************************************************************************)
(* Specifications.  Init is the Renderer as NewRenderer leaves it.         *)
(***************************************************************************)
StartWith(styles, hooks, lengths, cap, calls) ==
    /\ config \in [HeadingStyle : styles, TextTransformer : hooks,
                    NestedListLength : lengths,
                    ThematicBreakStyle : {0}, ThematicBreakLength : {0}]
    /\ limit = cap
    /\ rc = newRenderContext
    /\ stack = << >>
    /\ pc = "idle"
    /\ nodes = 0
    /\ texts = 0
    /\ ev = NoEvent
    /\ run = << >>
    /\ renders = 0
    /\ self = 1
    /\ other = [NoCall EXCEPT !.pc = IF calls = 2 THEN "idle" ELSE "none"]

Start(styles, hooks, cap) == StartWith(styles, hooks, {1}, cap, 1)

Init == Start(HeadingStyles, Hooks, MaxNodes)

Next ==
    \/ Render
    \/ EnterDocument
    \/ EnterParagraph
    \/ EnterBlockquote
    \/ EnterHeading
    \/ EnterCodeBlock
    \/ EnterFencedCodeBlock
    \/ EnterHTMLBlock
    \/ EnterText(PlainChars)
    \/ EnterEmphasis
    \/ EnterCodeSpan
    \/ EnterAutoLink
    \/ EnterLink
    \/ EnterImage
    \/ EnterRawHTML
    \/ ExitNode

Spec == Init /\ [][Next]_vars

\* Text runs: paragraphs of Text nodes, with Emphasis as the non-text sibling.
InitText == Start({"ATX"}, Hooks, MaxNodes - 1)

NextText ==
    \/ Render
    \/ EnterDocument
    \/ EnterParagraph
    \/ EnterText(PlainChars)
    \/ EnterEmphasis
    \/ ExitNode

SpecText == InitText /\ [][NextText]_vars

\* Skip-translation regions: code spans, code blocks, autolinks, links and images.
InitSkip == Start({"ATX"}, {"all", "some"}, MaxNodes - 2)

NextSkip ==
    \/ Render
    \/ EnterDocument
    \/ EnterParagraph
    \/ EnterText(PlainChars)
    \/ EnterCodeSpan
    \/ EnterAutoLink
    \/ EnterLink
    \/ EnterImage
    \/ EnterCodeBlock
    \/ EnterFencedCodeBlock
    \/ ExitNode

SpecSkip == InitSkip /\ [][NextSkip]_vars

\* Raw markup: HTML blocks and inline raw HTML.
InitHTML == Start({"ATX"}, Hooks, MaxNodes - 2)

NextHTML ==
    \/ Render
    \/ EnterDocument
    \/ EnterParagraph
    \/ EnterHTMLBlock
    \/ EnterRawHTML
    \/ EnterText(PlainChars)
    \/ ExitNode

SpecHTML == InitHTML /\ [][NextHTML]_vars

\* Code spans in one paragraph.
InitCodeSpan == Start({"ATX"}, {"nil"}, MaxNodes)

NextCodeSpan ==
    \/ Render
    \/ EnterDocument
    \/ EnterParagraph
    \/ EnterCodeSpan
    \/ EnterText({"a"})
    \/ ExitNode

SpecCodeSpan == InitCodeSpan /\ [][NextCodeSpan]_vars

\* Headings under every heading style.
InitHeading == Start(HeadingStyles, {"nil"}, MaxNodes - 2)

NextHeading ==
    \/ Render
    \/ EnterDocument
    \/ EnterHeading
    \/ EnterText(PlainChars)
    \/ ExitNode

SpecHeading == InitHeading /\ [][NextHeading]_vars

(***************************************************************************)
(* What a text run is in the source: the contents of its nodes in order,   *)
(* with a newline after every node but the last that ends in a soft line   *)
(* break; its leading and trailing whitespace; its trimmed key.            *)
(***************************************************************************)
RECURSIVE RunContent(_)
RunContent(r) ==
    IF r = << >> THEN << >>
    ELSE Head(r).value
         \o (IF Head(r).soft /\ Len(r) > 1 THEN <<"\n">> ELSE << >>)
         \o RunContent(Tail(r))

LeadingLen(s) ==
    CHOOSE k \in 0..Len(s) :
        /\ \A i \in 1..k : IsSpace(s[i])
        /\ k < Len(s) => ~IsSpace(s[k + 1])

TrailingLen(s) ==
    CHOOSE k \in 0..Len(s) :
        /\ \A i \in (Len(s) - k + 1)..Len(s) : IsSpace(s[i])
        /\ k < Len(s) => ~IsSpace(s[Len(s) - k])

LeadingWs(s) == SubSeq(s, 1, LeadingLen(s))

TrailingWs(s) == SubSeq(s, Len(s) - TrailingLen(s) + 1, Len(s))

RunKey(s) ==
    IF LeadingLen(s) = Len(s) THEN << >>
    ELSE SubSeq(s, LeadingLen(s) + 1, Len(s) - TrailingLen(s))

Suffix(s, k) == SubSeq(s, Len(s) - k + 1, Len(s))

\* The handler call just made entered the last Text node of a run.
RunEnded == ev.kind = "Text" /\ ev.entering /\ ~ev.n.next

HookHit(key) ==
    /\ config.TextTransformer # "nil"
    /\ Transform(config.TextTransformer, TextTypePlain, key).ok

InitList == StartWith({"ATX"}, {"nil"}, {1, 2}, MaxNodes, 1)

NextList ==
    \/ Render
    \/ EnterDocument
    \/ EnterList
    \/ EnterListItem
    \/ EnterParagraph
    \/ EnterText({"a"})
    \/ ExitNode

SpecList == InitList /\ [][NextList]_vars

\* Tables.
InitTable == Start({"ATX"}, {"nil"}, MaxNodes)

NextTable ==
    \/ Render
    \/ EnterDocument
    \/ EnterTable
    \/ EnterTableHeader
    \/ EnterTableRow
    \/ EnterTableCell
    \/ EnterText({"a"})
    \/ ExitNode

SpecTable == InitTable /\ [][NextTable]_vars

\* Blocks of every kind behind the block separator, one short form of each
\* leaf block.
InitBlocks == Start({"ATX"}, {"nil"}, MaxNodes - 1)

NextBlocks ==
    \/ Render
    \/ EnterDocument
    \/ EnterParagraph
    \/ EnterBlockquote
    \/ EnterHeadingOf({1}, {1}, {1})
    \/ EnterCodeBlockOf({1})
    \/ EnterFencedCodeBlockOf({1}, {FALSE})
    \/ EnterHTMLBlockOf({1}, {FALSE}, {FALSE})
    \/ EnterThematicBreak
    \/ EnterList
    \/ EnterListItem
    \/ EnterTextBlock
    \/ EnterText({"a"})
    \/ ExitNode

SpecBlocks == InitBlocks /\ [][NextBlocks]_vars

\* A sink that can start to refuse writes, and a handler registered by
\* another extension that can return an error.
InitFailure == Start({"ATX"}, {"nil"}, MaxNodes - 2)

NextFailure ==
    \/ Render
    \/ SinkFails
    \/ EnterDocument
    \/ EnterParagraph
    \/ EnterCustom
    \/ EnterText({"a"})
    \/ ExitNode

SpecFailure == InitFailure /\ [][NextFailure]_vars

\* Render calls one after the other on one Renderer, some of them aborted.
InitReuse == Start({"ATX"}, {"nil"}, MaxNodes - 1)

NextReuse ==
    \/ Render
    \/ RenderAgain
    \/ SinkFails
    \/ EnterDocument
    \/ EnterBlockquote
    \/ EnterList
    \/ EnterListItem
    \/ EnterParagraph
    \/ EnterCodeSpan
    \/ EnterText({"a"})
    \/ ExitNode

SpecReuse == InitReuse /\ [][NextReuse]_vars

\* Two Render calls on one Renderer, interleaved between handler calls.
InitConcurrent == StartWith({"ATX"}, {"nil"}, {1}, MaxNodes - 3, 2)

NextConcurrent ==
    \/ Render
    \/ Switch
    \/ EnterDocument
    \/ EnterParagraph
    \/ EnterText({"a"})
    \/ ExitNode

SpecConcurrent == InitConcurrent /\ [][NextConcurrent]_vars

(***************************************************************************)
(* Skip-translation regions.                                               *)
(***************************************************************************)
LinkTail(n) ==
    <<"]", "(">> \o n.dest
    \o (IF n.title # << >> THEN <<" ", "\"">> \o n.title \o <<"\"">> ELSE << >>)
    \o <<")">>

\* C2: the text of code spans, code blocks, fenced code blocks (info string
\* included), autolink URLs and link/image destinations is never offered to the
\* hook and is written byte-identical, whatever entries the hook has.
C2_SkipRegionsVerbatim ==
    /\ ev.kind \in {"CodeSpan", "CodeBlock", "FencedCodeBlock", "AutoLink", "Link", "Image"}
           => rc.calls = << >>
    /\ (ev.kind = "Text" /\ ev.parent = "CodeSpan") =>
           /\ rc.calls = << >>
           /\ (ev.entering /\ ~ev.n.next) =>
                  Written(rc.ops) = Concat(stack[Len(stack) - 1].n.kids)
    /\ (ev.kind = "CodeBlock" /\ ev.entering) => Written(rc.ops) = Concat(ev.n.lines)
    /\ (ev.kind = "FencedCodeBlock" /\ ev.entering) =>
           Written(rc.ops) = Repeat(<<BackTick>>, 3) \o ev.n.info \o Concat(ev.n.lines)
    /\ (ev.kind = "AutoLink" /\ ev.entering) => Written(rc.ops) = <<"<">> \o ev.n.value
    /\ (ev.kind \in {"Link", "Image"} /\ ~ev.entering) => Written(rc.ops) = LinkTail(ev.n)

C2_Witness ==
    /\ ev.kind = "Text" /\ ev.parent = "CodeSpan" /\ ev.entering /\ ~ev.n.next
    /\ config.TextTransformer = "all"
    /\ Written(rc.ops) = <<"a", "a">>

(***************************************************************************)
(* Raw markup.                                                             *)
(***************************************************************************)
RawContent(n) ==
    IF n.kind = "HTMLBlock"
    THEN Concat(n.lines) \o (IF n.hasClosure THEN n.closure ELSE << >>)
    ELSE Concat(n.segments)

RawHit(n) ==
    /\ config.TextTransformer # "nil"
    /\ Transform(config.TextTransformer, TextTypeHTML, RawContent(n)).ok

Terminated(line) ==
    IF line # << >> /\ line[Len(line)] = "\n" THEN line ELSE Append(line, "\n")

\* C4: when the hook returns a replacement for a raw-markup node, what is
\* written for the node over its enter and its exit is exactly the replacement.
C4_ReplacementOnly ==
    (ev.kind \in {"HTMLBlock", "RawHTML"} /\ ~ev.entering /\ RawHit(ev.n)) =>
        Written(ev.enterOps) \o Written(rc.ops) = Translation(RawContent(ev.n))

\* C5: when the hook is absent or has no replacement, an HTML block writes its
\* source lines and then its closing line once, each ending as its own output
\* line, and inline raw HTML writes its segments joined, with no line ended.
C5_RawFallbackVerbatim ==
    /\ (ev.kind = "HTMLBlock" /\ ~RawHit(ev.n)) =>
           IF ev.entering
           THEN Written(rc.ops) = Concat(ev.n.lines)
           ELSE /\ Written(ev.enterOps) = Concat(ev.n.lines)
                /\ Written(rc.ops) = (IF ev.n.hasClosure THEN ev.n.closure ELSE << >>)
                /\ rc.writer.buf = << >>
                /\ LET shown == Concat([i \in 1..Len(ev.n.lines) |-> Terminated(ev.n.lines[i])])
                                \o (IF ev.n.hasClosure THEN Terminated(ev.n.closure) ELSE << >>)
                   IN  Suffix(rc.writer.out, Len(shown)) = shown
    /\ (ev.kind = "RawHTML" /\ ~RawHit(ev.n)) =>
           IF ev.entering
           THEN /\ Written(rc.ops) = Concat(ev.n.segments)
                /\ \A i \in 1..Len(rc.ops) : rc.ops[i][1] = "WriteBytes"
           ELSE rc.ops = << >>

C5_Witness ==
    /\ ev.kind = "HTMLBlock" /\ ~ev.entering
    /\ config.TextTransformer = "some" /\ ~RawHit(ev.n)
    /\ ev.n.hasClosure
    /\ Suffix(rc.writer.out, 4) = <<"<", "\n", ">", "\n">>

(***************************************************************************)
(* Code spans.                                                             *)
(***************************************************************************)
\* The lengths of the maximal runs of backticks in s.
BacktickRuns(s) ==
    {k \in 1..Len(s) :
        \E i \in 1..(Len(s) - k + 1) :
            /\ \A j \in i..(i + k - 1) : s[j] = BackTick
            /\ i > 1 => s[i - 1] # BackTick
            /\ i + k <= Len(s) => s[i + k] # BackTick}

MinAbsent(S) ==
    CHOOSE k \in 1..(Cardinality(S) + 1) : k \notin S /\ \A j \in 1..(k - 1) : j \in S

NeedsPad(s) ==
    \/ IsSpace(s[1]) /\ IsSpace(s[Len(s)]) /\ \E i \in 1..Len(s) : ~IsSpace(s[i])
    \/ s[1] = BackTick
    \/ s[Len(s)] = BackTick

\* C6: the delimiter written on entering a code span is as wide as the smallest
\* positive integer that is not the length of a maximal backtick run of the
\* content, and the same width is written on exit.
C6_MinimalDelimiter ==
    ev.kind = "CodeSpan" =>
        LET delimiter == Repeat(<<BackTick>>, MinAbsent(BacktickRuns(Concat(ev.n.kids))))
        IN  IF ev.entering
            THEN rc.ops[1] = <<"WriteBytes", delimiter>>
            ELSE /\ rc.ops[Len(rc.ops)] = <<"WriteBytes", delimiter>>
                 /\ ev.enterOps[1] = <<"WriteBytes", delimiter>>

\* C7: a space follows the opening delimiter and a space precedes the closing
\* delimiter exactly when the content begins and ends with whitespace without
\* being all whitespace, or begins or ends with a backtick.
C7_SymmetricPadding ==
    ev.kind = "CodeSpan" =>
        LET pad == NeedsPad(Concat(ev.n.kids))
        IN  IF ev.entering
            THEN (Len(rc.ops) = 2 /\ rc.ops[2] = <<"WriteBytes", <<" ">> >>) <=> pad
            ELSE (Len(rc.ops) = 2 /\ rc.ops[1] = <<"WriteBytes", <<" ">> >>) <=> pad

(***************************************************************************)
(* Headings.                                                               *)
(***************************************************************************)
HeadingForm(n) ==
    IF ~n.hasKids \/ n.level > 2 THEN "atx"
    ELSE IF Len(n.lines) > 1 THEN "setext"
    ELSE IF config.HeadingStyle \in {"Setext", "FullWidthSetext"} THEN "setext"
    ELSE "atx"

\* The form a heading handler call shows in what it wrote.
EnterForm(ops) ==
    IF Written(ops) = << >> THEN "setext"
    ELSE IF Head(Written(ops)) = "#" THEN "atx" ELSE "other"

ExitForm(ops) ==
    IF Written(ops) = << >> \/ Head(Written(ops)) = " " THEN "atx"
    ELSE IF Head(Written(ops)) = "\n" THEN "setext" ELSE "other"

LongestLine(lines) ==
    CHOOSE w \in {Len(lines[i]) : i \in 1..Len(lines)} :
        \A i \in 1..Len(lines) : Len(lines[i]) <= w

\* C8: a heading without children or of level above 2 takes the '#' form;
\* otherwise one whose source spans several lines takes the underline form;
\* otherwise the underline form exactly under the setext styles; enter and exit
\* take the same form.
C8_HeadingForm ==
    ev.kind = "Heading" =>
        IF ev.entering
        THEN EnterForm(rc.ops) = HeadingForm(ev.n)
        ELSE /\ ExitForm(rc.ops) = HeadingForm(ev.n)
             /\ EnterForm(ev.enterOps) = ExitForm(rc.ops)

C8_Witness ==
    /\ ev.kind = "Heading" /\ ~ev.entering
    /\ config.HeadingStyle = "ATX"
    /\ ev.n.hasKids /\ ev.n.level = 2 /\ Len(ev.n.lines) = 2
    /\ ExitForm(rc.ops) = "setext"
    /\ EnterForm(ev.enterOps) = "setext"

\* C9: the underline form ends with a newline and an underline of '=' (level 1)
\* or '-' (level 2), 3 wide under the setext style and as wide as the longest
\* source line, but at least 3, under the full-width setext style.
C9_SetextUnderline ==
    (ev.kind = "Heading" /\ ~ev.entering /\ ExitForm(rc.ops) = "setext") =>
        LET underline == Tail(Written(rc.ops))
        IN  /\ \A i \in 1..Len(underline) :
                   underline[i] = (IF ev.n.level = 1 THEN "=" ELSE "-")
            /\ config.HeadingStyle = "Setext" => Len(underline) = 3
            /\ config.HeadingStyle = "FullWidthSetext" =>
                   Len(underline) = Max(3, LongestLine(ev.n.lines))
            /\ rc.ops[1] = <<"WriteBytes", <<"\n">> >>

C9_Witness ==
    /\ ev.kind = "Heading" /\ ~ev.entering
    /\ config.HeadingStyle = "FullWidthSetext"
    /\ ev.n.level = 2
    /\ Len(ev.n.lines) = 2 /\ Len(ev.n.lines[1]) = MaxWidth /\ Len(ev.n.lines[2]) = 1
    /\ Written(rc.ops) = <<"\n">> \o Repeat(<<"-">>, MaxWidth)

\* C10: the '#' form writes level '#' characters and then one space only if the
\* heading has children; on exit it writes a space and level '#' characters
\* under the surround style and nothing otherwise.
C10_ATXMarkers ==
    ev.kind = "Heading" =>
        IF ev.entering
        THEN EnterForm(rc.ops) = "atx" =>
                 Written(rc.ops) = Repeat(<<"#">>, ev.n.level)
                                   \o (IF ev.n.hasKids THEN <<" ">> ELSE << >>)
        ELSE EnterForm(ev.enterOps) = "atx" =>
                 Written(rc.ops) = IF config.HeadingStyle = "ATXSurround"
                                   THEN <<" ">> \o Repeat(<<"#">>, ev.n.level)
                                   ELSE << >>

C10_Witness ==
    /\ ev.kind = "Heading" /\ ~ev.entering
    /\ config.HeadingStyle = "ATXSurround"
    /\ ~ev.n.hasKids /\ ev.n.level = 2
    /\ Written(ev.enterOps) = <<"#", "#">>
    /\ Written(rc.ops) = <<" ", "#", "#">>

(***************************************************************************)
(* Lists.                                                                  *)
(***************************************************************************)
\* The prefixes a handler call pushed, in order.
Pushed(ops) == SelectSeq(ops, LAMBDA o : o[1] = "PushPrefix")

ItemEntered == ev.kind = "ListItem" /\ ev.entering /\ pc = "walk"

\* The list of the item just entered, and the item's position in it.
ItemList == stack[Len(stack) - 1].n

ItemIndex == stack[Len(stack) - 1].nkids

\* C11: the items of an ordered list that starts at S get the ordinals S, S+1,
\* S+2, ... in document order, whatever lists are nested in its items or
\* enclose it.
C11_OrdinalsInOrder ==
    (ItemEntered /\ ItemList.ordered) =>
        Pushed(rc.ops)[1][2] = Sprint(ItemList.start + ItemIndex - 1) \o <<".", " ">>

C11_Witness ==
    /\ ItemEntered /\ ItemList.ordered /\ ItemList.start = 9
    /\ ItemIndex = 2
    /\ Len(stack) = 3 /\ stack[1].nkids = 1
    /\ nodes = 6 /\ texts = 0
    /\ Pushed(rc.ops)[1][2] = <<"1", "0", ".", " ">>

\* C12: entering a list item pushes the marker prefix and then a continuation
\* prefix made of spaces only, as wide as the marker prefix, under every
\* configured continuation indent width.
C12_ContinuationWidth ==
    ItemEntered =>
        /\ Len(Pushed(rc.ops)) = 2
        /\ Pushed(rc.ops)[2][2] = Repeat(<<" ">>, Len(Pushed(rc.ops)[1][2]))

(***************************************************************************)
(* Tables.                                                                 *)
(***************************************************************************)
HeaderExited == ev.kind = "TableHeader" /\ ~ev.entering

\* The markers written for the columns, in column order, without padding.
MarkersWritten(ops) ==
    LET marks == SelectSeq(ops, LAMBDA o : o[1] = "WriteBytes" /\ Len(o[2]) > 1)
    IN  [i \in 1..Len(marks) |-> TrimSpace(marks[i][2])]

ShortMarker(alignment) ==
    CASE alignment = "left" -> <<":", "-", "-", "-">>
      [] alignment = "right" -> <<"-", "-", "-", ":">>
      [] alignment = "center" -> <<":", "-", "-", "-", ":">>
      [] OTHER -> <<"-", "-", "-">>

WideMarker(alignment) ==
    CASE alignment = "left" -> <<":", "-", "-", "-", "-", "-">>
      [] alignment = "right" -> <<"-", "-", "-", "-", "-", ":">>
      [] alignment = "center" -> <<":", "-", "-", "-", "-", ":">>
      [] OTHER -> <<"-", "-", "-", "-", "-">>

RECURSIVE SeparatorText(_)
SeparatorText(alignments) ==
    IF alignments = << >> THEN << >>
    ELSE <<" ">> \o WideMarker(Head(alignments)) \o <<" ", "|">>
         \o SeparatorText(Tail(alignments))

\* C13 as stated: the separator row marks a left column ':---', a right column
\* '---:', a centered column ':---:' and any other column '---'.
C13_ShortMarkers ==
    HeaderExited =>
        MarkersWritten(rc.ops) =
            [i \in 1..Len(ev.n.alignments) |-> ShortMarker(ev.n.alignments[i])]

\* C13: the separator row marks a left column ':-----', a right column
\* '-----:', a centered column ':----:' and any other column '-----', so that
\* the alignments {left, right} give the row '| :----- | -----: |'.
C13_WideMarkers ==
    HeaderExited =>
        /\ MarkersWritten(rc.ops) =
               [i \in 1..Len(ev.n.alignments) |-> WideMarker(ev.n.alignments[i])]
        /\ ev.n.alignments = <<"left", "right">> =>
               Written(rc.ops) = <<"|", " ", ":", "-", "-", "-", "-", "-", " ", "|",
                                   " ", "-", "-", "-", "-", "-", ":", " ", "|">>

C13_Witness ==
    /\ HeaderExited
    /\ ev.n.alignments = <<"left", "right">>
    /\ MarkersWritten(rc.ops) = << <<":", "-", "-", "-", "-", "-">>,
                                   <<"-", "-", "-", "-", "-", ":">> >>

\* C14: on exit of a table header row the header line is ended and exactly one
\* separator line follows it at once: '|' and then, for each entry of the
\* alignment list in order, ' ' + marker + ' |'; it has one cell per entry.
C14_SeparatorLine ==
    (HeaderExited /\ pc = "walk") =>
        LET separator == <<"|">> \o SeparatorText(ev.n.alignments)
        IN  /\ rc.ops[1][1] = "EndLine"
            /\ rc.ops[Len(rc.ops)][1] = "EndLine"
            /\ Written(rc.ops) = separator
            /\ Len(SelectSeq(rc.ops, LAMBDA o : o[1] = "EndLine")) = 2
            /\ rc.writer.buf = << >>
            /\ rc.writer.out = ev.before.out \o ev.before.buf \o <<"\n">>
                               \o separator \o <<"\n">>

C14_Witness ==
    /\ HeaderExited /\ pc = "walk"
    /\ ev.n.alignments = <<"center", "none">>
    /\ rc.writer.out = <<"|", " ", "a", " ", "|", " ", " ", "|", "\n",
                         "|", " ", ":", "-", "-", "-", "-", ":", " ", "|",
                         " ", "-", "-", "-", "-", "-", " ", "|", "\n">>

(***************************************************************************)
(* Block separation.                                                       *)
(***************************************************************************)
EndLines(ops) == SelectSeq(ops, LAMBDA o : o[1] = "EndLine")

StartsWith(s, p) == Len(s) >= Len(p) /\ SubSeq(s, 1, Len(p)) = p

\* C15: on entering a block of a block-wrapped kind, one blank line is emitted
\* if and only if the node has a previous sibling and the source recorded blank
\* lines before it; a first child never gets one.
C15_BlankLineIffRecorded ==
    (ev.kind \in BlockKinds /\ ev.entering) =>
        IF ev.n.prev /\ ev.n.blank
        THEN /\ rc.ops[1][1] = "EndLine"
             /\ Len(EndLines(rc.ops)) = 1
             /\ ev.before.buf = << >>
             /\ StartsWith(rc.writer.out, ev.before.out \o Prefix(ev.before) \o <<"\n">>)
        ELSE /\ EndLines(rc.ops) = << >>
             /\ ~StartsWith(rc.writer.out \o rc.writer.buf,
                            ev.before.out \o Prefix(ev.before) \o <<"\n">>)

C15_Witness ==
    /\ ev.kind = "ThematicBreak" /\ ev.entering
    /\ ev.n.prev /\ ev.n.blank
    /\ rc.writer.out = <<"-", "-", "-", "\n", "\n">>
    /\ rc.writer.buf = <<"-", "-", "-">>

(***************************************************************************)
(* The end of the output.                                                  *)
(***************************************************************************)
\* C16: a render of a non-empty document tree that meets no write failure ends
\* its output in exactly one newline: the last line is terminated and no empty
\* line follows it.
C16_OneTrailingNewline ==
    (pc = "done" /\ nodes > 1 /\ ~Err(rc)) =>
        /\ rc.writer.buf = << >>
        /\ rc.writer.out # << >>
        /\ rc.writer.out[Len(rc.writer.out)] = "\n"
        /\ Len(rc.writer.out) > 1 => rc.writer.out[Len(rc.writer.out) - 1] # "\n"

(***************************************************************************)
(* Errors.                                                                 *)
(***************************************************************************)
\* C17: Render returns an error exactly when the writer has recorded a write
\* failure; once one is recorded no further handler is invoked; the error a
\* registered handler returns is never returned by Render.
C17_ErrorIffWriteFailure ==
    /\ pc \in {"walk", "done"} => ~Err(rc)
    /\ pc = "failed" => Err(rc)
    /\ (ev.kind = "Custom" /\ ev.n.fails /\ ~Err(rc)) => pc # "failed"

C17_Witness ==
    /\ pc = "failed" /\ Err(rc)
    /\ Len(stack) = 3
    /\ ev.kind = "Text" /\ ev.n.soft
    /\ stack[1].nkids = 2

(***************************************************************************)
(* The context of a render.                                                *)
(***************************************************************************)
RenderEntered == pc = "walk" /\ stack = << >>

\* C18: every Render call starts from a fresh context, whatever an earlier
\* call on the same Renderer left behind: no list frame, skip flag false, no
\* text run active, no break pending, code-span state zero, no prefix.
C18_FreshContext ==
    RenderEntered =>
        /\ rc.lists = << >>
        /\ ~rc.skipTranslation
        /\ ~rc.textBufferActive
        /\ rc.pendingLineBreaks = << >>
        /\ rc.codeSpanContext = [backtickLength |-> 0, padSpace |-> FALSE]
        /\ rc.writer.prefixes = << >>
        /\ rc.writer.buf = << >> /\ rc.writer.out = << >> /\ ~rc.writer.err

C18_Witness == RenderEntered /\ renders = MaxRenders /\ rc.lists = << >>

\* C19: the title of a link or image is translated: with a non-empty title the
\* hook has a replacement for, the text between the quotes is the replacement,
\* and the destination and the link syntax are written unchanged.
C19_TitleTranslated ==
    (ev.kind \in {"Link", "Image"} /\ ~ev.entering /\ ev.n.title # << >>
     /\ config.TextTransformer # "nil"
     /\ Transform(config.TextTransformer, TextTypePlain, ev.n.title).ok) =>
        Written(rc.ops) = <<"]", "(">> \o ev.n.dest \o <<" ", "\"">>
                          \o Translation(ev.n.title) \o <<"\"", ")">>

\* C20: when two Render calls on one Renderer interleave between handler
\* calls, every handler of a call works on the context its own call created.
C20_OwnContext == ev.kind # "none" => ev.sink = ev.call

(***************************************************************************)
(* Render-wide invariants of the context.                                  *)
(***************************************************************************)
\* C21: once a code span has been exited its code-span state is cleared: the
\* delimiter width is 0 and the pad flag is false again, so nothing of the span
\* is left for a later one to read.
C21_StateCleared ==
    (ev.kind = "CodeSpan" /\ ~ev.entering) =>
        rc.codeSpanContext = [backtickLength |-> 0, padSpace |-> FALSE]

\* Every kind that opens a skip-translation region, with prose around it.
InitRegions == Start({"ATX"}, {"nil", "some"}, MaxNodes - 2)

NextRegions ==
    \/ Render
    \/ EnterDocument
    \/ EnterParagraph
    \/ EnterText({"a"})
    \/ EnterCodeSpan
    \/ EnterAutoLink
    \/ EnterLink
    \/ EnterImage
    \/ EnterCodeBlockOf({1})
    \/ EnterFencedCodeBlockOf({1}, {FALSE})
    \/ EnterHTMLBlockOf({1}, {FALSE}, {FALSE})
    \/ ExitNode

SpecRegions == InitRegions /\ [][NextRegions]_vars

SkipRegionKinds == {"CodeSpan", "CodeBlock", "FencedCodeBlock", "HTMLBlock", "AutoLink"}

\* The open nodes that have set the flag and not yet cleared it.
OpenRegions ==
    {i \in 1..Len(stack) :
        /\ stack[i].n.kind \in SkipRegionKinds
        /\ stack[i].n.kind = "HTMLBlock" => ~RawHit(stack[i].n)}

\* C22: between handler calls the skip-translation flag is set only while one
\* code span, code block, fenced code block, autolink or HTML block on the
\* fallback path is open, never while two of them are; it is clear when a Text
\* node outside a code span is entered and when the walk has ended.
C22_SkipPaired ==
    /\ rc.skipTranslation => Cardinality(OpenRegions) = 1
    /\ Cardinality({i \in 1..Len(stack) : stack[i].n.kind \in SkipRegionKinds}) <= 1
    /\ (ev.kind = "Text" /\ ev.entering /\ ev.parent # "CodeSpan") => ~ev.skip
    /\ pc = "done" => ~rc.skipTranslation

\* A Text node is entered after an autolink of the same paragraph has been exited.
C22_Witness ==
    /\ ev.kind = "Text" /\ ev.entering /\ ev.parent = "Paragraph"
    /\ ~ev.skip
    /\ StartsWith(rc.writer.buf, <<"<", "a", ">">>)

\* The open nodes of a kind, and the prefixes a handler call popped.
Open(kind) == Cardinality({i \in 1..Len(stack) : stack[i].n.kind = kind})

PrefixBytes(prefixes) == [i \in 1..Len(prefixes) |-> prefixes[i].bytes]

Popped(ops) == SelectSeq(ops, LAMBDA o : o[1] = "PopPrefix")

\* C23: the writer holds one prefix per open block quote and per open indented
\* code block and two per open list item; an exit pops exactly the prefixes its
\* own enter pushed, which are then the top of the stack, so no pop meets an
\* empty stack; no prefix is held when a render starts or has completed.
C23_PrefixesPaired ==
    /\ Len(rc.writer.prefixes) =
           Open("Blockquote") + Open("CodeBlock") + 2 * Open("ListItem")
    /\ (ev.kind # "none" /\ ~ev.entering) =>
           LET pushed == Pushed(ev.enterOps)
               held == ev.before.prefixes
           IN  /\ Len(Popped(rc.ops)) = Len(pushed)
               /\ Len(pushed) <= Len(held)
               /\ \A i \in 1..Len(pushed) :
                      held[Len(held) - Len(pushed) + i].bytes = pushed[i][2]
               /\ PrefixBytes(rc.writer.prefixes) =
                      SubSeq(PrefixBytes(held), 1, Len(held) - Len(pushed))
    /\ (RenderEntered \/ pc = "done") => rc.writer.prefixes = << >>

\* A list item inside a block quote is exited with three prefixes held.
C23_Witness ==
    /\ ev.kind = "ListItem" /\ ~ev.entering
    /\ Len(ev.before.prefixes) = 3
    /\ Open("Blockquote") = 1
    /\ Len(rc.writer.prefixes) = 1

\* The open list nodes, outermost first.
OpenLists == SelectSeq([i \in 1..Len(stack) |-> stack[i].n], LAMBDA n : n.kind = "List")

\* C24: there is one list frame per list node entered and not yet exited, in
\* nesting order; when a list item is entered the top frame is the frame of the
\* item's parent list; no frame is left when the walk has ended.
C24_FramesMatchNesting ==
    /\ Len(rc.lists) = Len(OpenLists)
    /\ \A i \in 1..Len(rc.lists) : rc.lists[i].list = OpenLists[i]
    /\ (ev.kind = "ListItem" /\ ev.entering) =>
           LET frame == rc.lists[Len(rc.lists)]
               marker == Pushed(rc.ops)[1][2]
           IN  /\ frame.list.start = ItemList.start
               /\ frame.list.ordered = ItemList.ordered
               /\ frame.list.marker = ItemList.marker
               /\ Suffix(marker, 2) = <<ItemList.marker, " ">>
               /\ ItemList.ordered <=> Len(marker) > 2
    /\ pc = "done" => rc.lists = << >>

\* An item of a bullet list nested in an ordered list is entered.
C24_Witness ==
    /\ ev.kind = "ListItem" /\ ev.entering
    /\ Len(rc.lists) = 2
    /\ rc.lists[1].list.ordered /\ rc.lists[1].list.start = 9
    /\ ~rc.lists[2].list.ordered

RunIdle(c) == ~c.textBufferActive /\ c.pendingLineBreaks = << >>

\* C25: a text run is active, or a soft break pending, only right after the
\* handler of a Text node whose next sibling is a Text node; so no run is active
\* when the handler of any other node is called, nor when the walk has ended,
\* and entering the last Text node of a run leaves the run written and reset.
C25_RunNeverLeaks ==
    /\ ~RunIdle(rc) => (ev.kind = "Text" /\ ev.n.next)
    /\ ev.kind \notin {"Text", "none"} => ~ev.active
    /\ RunEnded => RunIdle(rc)
    /\ pc = "done" => RunIdle(rc)

\* An emphasis is entered right after a run of two Text nodes joined by a soft break.
C25_Witness ==
    /\ ev.kind = "Emphasis" /\ ev.entering
    /\ Len(run) = 2 /\ run[1].soft /\ run[2].soft
    /\ RunIdle(rc)

\* C26: at the last node of a run the handler writes the run's text, to which
\* the final node's soft break does not belong, and asks the hook, if at all,
\* for the key of that text; it then ends the line exactly once when the final
\* node is flagged with a soft break, and not at all when it is not.
C26_TrailingBreakAfterText ==
    RunEnded =>
        LET content == RunContent(run)
            key == RunKey(content)
            text == IF ~ev.skip /\ HookHit(key)
                    THEN LeadingWs(content) \o Translation(key) \o TrailingWs(content)
                    ELSE content
        IN  /\ rc.ops = <<<<"WriteBytes", text>>>>
                        \o (IF ev.n.soft THEN <<<<"EndLine", << >> >>>> ELSE << >>)
            /\ \A i \in 1..Len(rc.calls) : rc.calls[i] = <<TextTypePlain, key>>
            /\ ev.n.soft => /\ rc.writer.buf = << >>
                            /\ ~Err(rc) => Suffix(rc.writer.out, 1) = <<"\n">>

\* A run of two nodes, both flagged, has been replaced and its line ended.
C26_Witness ==
    /\ RunEnded /\ ~ev.skip
    /\ Len(run) = 2 /\ run[1].soft /\ run[2].soft
    /\ HookHit(RunKey(RunContent(run)))
    /\ Len(EndLines(rc.ops)) = 1

\* C27: with a hook configured, entering a raw-markup node asks the hook once,
\* as raw markup, for the node's whole content: the lines of an HTML block
\* followed by its closing line, or the segments of inline raw HTML, in order;
\* the exit of the node asks nothing, and without a hook nothing is asked.
C27_WholeNodeOffered ==
    ev.kind \in {"HTMLBlock", "RawHTML"} =>
        rc.calls = IF ev.entering /\ config.TextTransformer # "nil"
                   THEN << <<TextTypeHTML, RawContent(ev.n)>> >>
                   ELSE << >>

\* Inline raw HTML of several segments has been offered to the hook.
C27_Witness ==
    /\ ev.kind = "RawHTML" /\ ev.entering
    /\ Len(ev.n.segments) = MaxLines
    /\ rc.calls = << <<TextTypeHTML, Concat(ev.n.segments)>> >>

\* C28: for a run that is all whitespace the bytes written hold the run's
\* whitespace once: the run's content when the hook has no replacement for the
\* empty key, and otherwise the replacement with, around it, no more whitespace
\* than the run has.
C28_WhitespaceOnce ==
    (RunEnded /\ ~ev.skip /\ RunContent(run) # << >> /\ RunKey(RunContent(run)) = << >>) =>
        LET content == RunContent(run)
        IN  IF HookHit(<< >>)
            THEN Len(Written(rc.ops)) = Len(content) + Len(Translation(<< >>))
            ELSE Written(rc.ops) = content

\* Paragraphs whose lines end in soft breaks, in hard breaks or in neither.
InitBreaks == Start({"ATX"}, {"nil", "some"}, MaxNodes - 1)

NextBreaks ==
    \/ Render
    \/ EnterDocument
    \/ EnterParagraph
    \/ EnterTextOf({"a"}, {"none", "soft", "hard"})
    \/ EnterEmphasis
    \/ ExitNode

SpecBreaks == InitBreaks /\ [][NextBreaks]_vars

\* The contents of a run with a newline after every node but the last whose
\* line ends in a break, soft or hard.
RECURSIVE RunLines(_)
RunLines(r) ==
    IF r = << >> THEN << >>
    ELSE Head(r).value
         \o (IF (Head(r).soft \/ Head(r).hard) /\ Len(r) > 1 THEN <<"\n">> ELSE << >>)
         \o RunLines(Tail(r))

\* C29: in the text written for a run that the hook leaves alone, the contents
\* of two neighbouring Text nodes are separated by a line break whenever the
\* first of them is flagged as ending in a soft or a hard line break.
C29_BreakBetweenNodes ==
    (RunEnded /\ ~ev.skip /\ ~HookHit(RunKey(RunContent(run)))) =>
        Written(rc.ops) = RunLines(run)

\* Trees of default kinds, registered kinds and String nodes.
InitKinds == Start({"ATX"}, {"nil", "some"}, MaxNodes - 1)

NextKinds ==
    \/ Render
    \/ EnterDocument
    \/ EnterParagraph
    \/ EnterBlockquote
    \/ EnterText({"a"})
    \/ EnterEmphasis
    \/ EnterString
    \/ EnterCustom
    \/ ExitNode

SpecKinds == InitKinds /\ [][NextKinds]_vars

\* C30: every node the walk meets has a handler in the dispatch table, so a
\* call of Render never stops on a missing handler.
C30_EveryKindHandled ==
    /\ pc # "panicked"
    /\ ev.kind # "none" => ev.kind \in HandledKinds

====
